---- MODULE Spec2Model ----
(***************************************************************************)
(* Model of air_quality_map_ow.py: a Streamlit script that, on every run   *)
(* (a "render cycle"), fetches air-pollution data per neighborhood,        *)
(* reduces it to one scalar per neighborhood, builds a green/yellow/red    *)
(* colormap over the scalars and draws one polygon + tooltip + marker per  *)
(* neighborhood.                                                           *)
(*                                                                         *)
(* A script run is a sequence of steps (pc).  Each browser session runs    *)
(* the script in its own thread with its own globals; the GeoDataFrame     *)
(* returned by the st.cache_resource function load_neighborhoods is the    *)
(* one object shared by all runs.                                          *)
(*                                                                         *)
(* Numbers are exact rationals [num, den] (den > 0, lowest terms), so the  *)
(* means the script computes are compared exactly.                         *)
(***************************************************************************)
EXTENDS Integers, Sequences, FiniteSets, TLC

\* ------------------------------------------------------------------ bounds

NumRegions == 3     \* rows of the shapefile
Today == 1          \* date inputs range over days 0..Today
RampExtra == 6      \* the ramp payload holds ForecastWindow + RampExtra samples
TailLen == 2        \* samples that follow a full window in the long payloads

\* ------------------------------------------------------- program constants

ForecastWindow == 24     \* aq_data[:24]
HTTP_OK == 200           \* resp.status_code == 200
SecondsPerDay == 86400   \* datetime.combine(d, midnight).timestamp(), UTC host

Regions == 1..NumRegions
Sessions == {1, 2}

\* ---------------------------------------------------------------- numbers

RECURSIVE Gcd(_, _)
Gcd(a, b) == IF b = 0 THEN a ELSE Gcd(b, a % b)

Abs(n) == IF n < 0 THEN -n ELSE n

\* kind: "num" a number, "None" Python None, "NaN" float nan, "N/A" the
\* tooltip's string sentinel.  num/den are 0/1 unless kind = "num".
Rat(n, d) ==
    LET g == Gcd(Abs(n), d)
    IN  [kind |-> "num", num |-> n \div g, den |-> d \div g]

PyNone == [kind |-> "None", num |-> 0, den |-> 1]
NaN == [kind |-> "NaN", num |-> 0, den |-> 1]
NAString == [kind |-> "N/A", num |-> 0, den |-> 1]

IsNum(x) == x.kind = "num"

\* Python comparisons on floats: every comparison with nan is False.
Lt(a, b) == IsNum(a) /\ IsNum(b) /\ a.num * b.den < b.num * a.den
Le(a, b) == IsNum(a) /\ IsNum(b) /\ a.num * b.den <= b.num * a.den
Ge(a, b) == Le(b, a)
Eq(a, b) == IsNum(a) /\ IsNum(b) /\ a.num * b.den = b.num * a.den

Sub(a, b) == Rat(a.num * b.den - b.num * a.den, a.den * b.den)
Add(a, b) == Rat(a.num * b.den + b.num * a.den, a.den * b.den)
Mul(a, b) == Rat(a.num * b.num, a.den * b.den)
\* a / b for b >= 0; Python raises ZeroDivisionError when b is 0
ZeroDivision == [kind |-> "ZeroDivisionError", num |-> 0, den |-> 1]
Div(a, b) == IF b.num = 0 THEN ZeroDivision ELSE Rat(a.num * b.den, a.den * b.num)

RECURSIVE SumSeq(_)
SumSeq(s) == IF s = <<>> THEN 0 ELSE Head(s) + SumSeq(Tail(s))

\* sum(vals)/len(vals)
Mean(vals) == Rat(SumSeq(vals), Len(vals))

\* ---------------------------------------------------------------- samples

\* One entry of the provider's "list": components maps the pollutant keys it
\* carries to a concentration; main is <<aqi>> or <<>> when the entry has no
\* overall index.
Sample(components, main) == [components |-> components, main |-> main]

Pm(v) == "pm2_5" :> v
No2(v) == "no2" :> v

\* dict.get(key): the value, or None when the key is missing
Get(components, key) ==
    IF key \in DOMAIN components THEN Rat(components[key], 1) ELSE PyNone

RECURSIVE Repeat(_, _)
Repeat(s, n) == IF n = 0 THEN <<>> ELSE <<s>> \o Repeat(s, n - 1)

\* hourly samples with pm2_5 = 1, 2, ..., n
Ramp(n) == [i \in 1..n |-> Sample(Pm(i), <<>>)]

\* aq_data values: None, one sample (a dict) or a list of samples
NoData == [tag |-> "None", data |-> <<>>]
DictData(s) == [tag |-> "dict", data |-> <<s>>]
ListData(l) == [tag |-> "list", data |-> l]

\* -------------------------------------------------------------- responses

\* What requests.get does for one URL: raise (transport failure) or return a
\* response with a status code and a JSON body that may hold a "list".
TransportFailure == [kind |-> "transport", status |-> 0, hasList |-> FALSE, list |-> <<>>]
HttpResponse(status, hasList, list) ==
    [kind |-> "http", status |-> status, hasList |-> hasList, list |-> list]

Raised(exc) == [raised |-> exc, value |-> NoData]
Returned(v) == [raised |-> "", value |-> v]

fetch_current_aqi(resp) ==
    IF resp.kind = "transport" THEN Raised("ConnectionError")
    ELSE IF resp.status = HTTP_OK /\ resp.hasList /\ Len(resp.list) > 0
         THEN Returned(DictData(resp.list[1]))
         ELSE Returned(NoData)

fetch_forecast_aqi(resp) ==
    IF resp.kind = "transport" THEN Raised("ConnectionError")
    ELSE IF resp.status = HTTP_OK /\ resp.hasList /\ Len(resp.list) > 0
         THEN Returned(ListData(resp.list))
         ELSE Returned(NoData)

fetch_historic_aqi(resp) ==
    IF resp.kind = "transport" THEN Raised("ConnectionError")
    ELSE IF resp.status = HTTP_OK /\ resp.hasList /\ Len(resp.list) > 0
         THEN Returned(ListData(resp.list))
         ELSE Returned(NoData)

pollutant_key_map(pollutant) ==
    CASE pollutant = "pm25" -> "pm2_5"
      [] pollutant = "pm10" -> "pm10"
      [] pollutant = "o3" -> "o3"
      [] pollutant = "no2" -> "no2"
      [] pollutant = "so2" -> "so2"
      [] pollutant = "co" -> "co"
      [] OTHER -> pollutant

\* ------------------------------------------------------------ aggregation

\* [entry["components"].get(p_key) for entry in entries if p_key in entry["components"]]
\* (the values are numbers, so the "v is not None" filter keeps them all)
RECURSIVE KeyVals(_, _)
KeyVals(entries, p_key) ==
    IF entries = <<>> THEN <<>>
    ELSE LET c == Head(entries).components
         IN  (IF p_key \in DOMAIN c THEN <<c[p_key]>> ELSE <<>>)
             \o KeyVals(Tail(entries), p_key)

\* entries[:n]
Slice(entries, n) == SubSeq(entries, 1, IF Len(entries) < n THEN Len(entries) ELSE n)

\* extract_color_val, with the globals it reads (color_by, display_mode) as
\* parameters.  A dict where a list is expected (or the reverse) raises
\* TypeError inside the try block, which returns None.
extract_color_val(aq_data, color_by, display_mode) ==
    IF aq_data.tag = "None" THEN PyNone
    ELSE LET p_key == pollutant_key_map(color_by)
         IN  IF display_mode = "Current"
             THEN IF aq_data.tag = "dict"
                  THEN Get(aq_data.data[1].components, p_key)
                  ELSE PyNone
             ELSE IF aq_data.tag = "list"
                  THEN LET vals == KeyVals(aq_data.data, p_key)
                       IN  IF vals # <<>> THEN Mean(vals) ELSE PyNone
                  ELSE PyNone

\* pandas Series.apply infers the dtype of the results: numbers mixed with
\* None become a float64 column in which None is stored as nan; a column of
\* only None stays an object column holding None.
SeriesApply(col, color_by, display_mode) ==
    LET out == [i \in 1..Len(col) |-> extract_color_val(col[i], color_by, display_mode)]
    IN  IF \E i \in 1..Len(out) : IsNum(out[i])
        THEN [i \in 1..Len(out) |-> IF IsNum(out[i]) THEN out[i] ELSE NaN]
        ELSE out

\* Series.dropna(): the entries that are neither None nor nan
DropNa(col) == {col[i] : i \in {j \in 1..Len(col) : IsNum(col[j])}}

MinOf(S) == CHOOSE x \in S : \A y \in S : Le(x, y)
MaxOf(S) == CHOOSE x \in S : \A y \in S : Le(y, x)

\* ColorDomain with fillna(0) in place of dropna(): an absent scalar counts as 0
ColorDomainNaAsZero(color_val) ==
    LET valid_vals == {IF IsNum(color_val[i]) THEN color_val[i] ELSE Rat(0, 1) :
                         i \in 1..Len(color_val)}
    IN  IF valid_vals # {}
        THEN [min_val |-> MinOf(valid_vals), max_val |-> MaxOf(valid_vals)]
        ELSE [min_val |-> Rat(0, 1), max_val |-> Rat(1, 1)]

\* min_val, max_val of the colormap (lines 148-152)
ColorDomain(color_val) ==
    LET valid_vals == DropNa(color_val)
    IN  IF valid_vals # {}
        THEN [min_val |-> MinOf(valid_vals), max_val |-> MaxOf(valid_vals)]
        ELSE [min_val |-> Rat(0, 1), max_val |-> Rat(1, 1)]

\* --------------------------------------------------------------- colormap

Colors == <<"green", "yellow", "red">>

\* cm.LinearColormap(colors, vmin, vmax):
\* index = [vmin + (vmax - vmin) * i / (n - 1) for i in range(n)]
LinearColormap(vmin, vmax) ==
    [colors |-> Colors,
     index |-> [i \in 1..Len(Colors) |->
                  Add(vmin, Div(Mul(Sub(vmax, vmin), Rat(i - 1, 1)),
                                Rat(Len(Colors) - 1, 1)))]]

\* A colour is (1 - p) * lo + p * hi; an anchor colour c is lo = hi = c.
Anchor(c) == [lo |-> c, hi |-> c, p |-> Rat(0, 1)]
Blend(lo, hi, p) == IF Eq(p, Rat(1, 1)) THEN Anchor(hi) ELSE [lo |-> lo, hi |-> hi, p |-> p]
Gray == Anchor("gray")

\* seq[j] with Python's indexing (0-based, -1 is the last element)
PyIndex(seq, j) == seq[(j % Len(seq)) + 1]

ColorOk(c) == [raised |-> "", color |-> c]
ColorRaised(exc) == [raised |-> exc, color |-> Gray]

\* CallColormap with "x < index[0]" as its first test: a value equal to the
\* lower bound falls through to the second test
CallColormapStrict(colormap, x) ==
    LET index == colormap.index
        colors == colormap.colors
    IN  IF Lt(x, PyIndex(index, 0)) THEN ColorOk(Anchor(PyIndex(colors, 0)))
        ELSE IF Ge(x, PyIndex(index, -1)) THEN ColorOk(Anchor(PyIndex(colors, -1)))
        ELSE LET i == Cardinality({k \in 1..Len(index) : Lt(index[k], x)})
                 a == PyIndex(index, i - 1)
                 b == PyIndex(index, i)
             IN  IF Lt(a, b)
                 THEN IF Div(Sub(x, a), Sub(b, a)) = ZeroDivision
                      THEN ColorRaised("ZeroDivisionError")
                      ELSE ColorOk(Blend(PyIndex(colors, i - 1), PyIndex(colors, i),
                                         Div(Sub(x, a), Sub(b, a))))
                 ELSE IF Eq(a, b)
                      THEN ColorOk(Blend(PyIndex(colors, i - 1), PyIndex(colors, i),
                                         Rat(1, 1)))
                      ELSE ColorRaised("ValueError")

\* colormap(x), LinearColormap.rgba_floats_tuple:
\*   if x <= index[0]: return colors[0]
\*   if x >= index[-1]: return colors[-1]
\*   i = len([u for u in index if u < x])
\*   if index[i-1] < index[i]: p = (x - index[i-1]) / (index[i] - index[i-1])
\*   elif index[i-1] == index[i]: p = 1.0
\*   else: raise ValueError("Thresholds are not sorted.")
\*   return (1 - p) * colors[i-1] + p * colors[i]
\* For nan every comparison is False, so i = 0 and index[i-1] is index[-1]:
\* the call raises unless vmin = vmax, and then returns colors[0].
CallColormap(colormap, x) ==
    LET index == colormap.index
        colors == colormap.colors
    IN  IF Le(x, PyIndex(index, 0)) THEN ColorOk(Anchor(PyIndex(colors, 0)))
        ELSE IF Ge(x, PyIndex(index, -1)) THEN ColorOk(Anchor(PyIndex(colors, -1)))
        ELSE LET i == Cardinality({k \in 1..Len(index) : Lt(index[k], x)})
                 a == PyIndex(index, i - 1)
                 b == PyIndex(index, i)
             IN  IF Lt(a, b)
                 THEN IF Div(Sub(x, a), Sub(b, a)) = ZeroDivision
                      THEN ColorRaised("ZeroDivisionError")
                      ELSE ColorOk(Blend(PyIndex(colors, i - 1), PyIndex(colors, i),
                                         Div(Sub(x, a), Sub(b, a))))
                 ELSE IF Eq(a, b)
                      THEN ColorOk(Blend(PyIndex(colors, i - 1), PyIndex(colors, i),
                                         Rat(1, 1)))
                      ELSE ColorRaised("ValueError")

\* fill_color = colormap(color_val) if color_val is not None else "gray"
FillColor(colormap, color_val) ==
    IF color_val.kind # "None" THEN CallColormap(colormap, color_val) ELSE ColorOk(Gray)

\* ---------------------------------------------------------------- tooltip

\* p.upper()
Upper(p) ==
    CASE p = "pm25" -> "PM25"
      [] p = "pm10" -> "PM10"
      [] p = "o3" -> "O3"
      [] p = "no2" -> "NO2"
      [] p = "so2" -> "SO2"
      [] p = "co" -> "CO"

Line(text, p, mode, val) == [text |-> text, p |-> p, mode |-> mode, val |-> val]

\* "AQI (Overall): {aqi}"
AqiLine(aqi) == Line("AQI (Overall)", "", "", Rat(aqi, 1))
\* "{P}: {val}"
ValueLine(p, val) == Line("value", Upper(p), "", val)
\* "{P} ({display_mode} avg): {avg_val}"
AvgLine(p, display_mode, val) == Line("avg", Upper(p), display_mode, val)
NoDetailLine == Line("No detailed data available.", "", "", PyNone)
NoDataLine == Line("No data available.", "", "", PyNone)

\* aq_data["components"].get(p_key, "N/A")
GetOrNA(components, p_key) ==
    IF p_key \in DOMAIN components THEN Rat(components[p_key], 1) ELSE NAString

\* avg_val = sum(vals)/len(vals) if vals else "N/A", over
\* entries = aq_data[:24] if display_mode == "Forecast" else aq_data
TooltipAvg(aq_list, p, display_mode) ==
    LET entries == IF display_mode = "Forecast" THEN Slice(aq_list, ForecastWindow)
                   ELSE aq_list
        vals == KeyVals(entries, pollutant_key_map(p))
    IN  IF vals # <<>> THEN Mean(vals) ELSE NAString

TooltipOk(lines) == [raised |-> "", lines |-> lines]
TooltipRaised(exc) == [raised |-> exc, lines |-> <<>>]

\* The lines of tooltip_html after the "<b>{name}</b>" header (lines 175-198).
\* aq_data['main'] raises TypeError on a list and KeyError on a sample with
\* no "main".
Tooltip(aq_data, selected_pollutants, display_mode) ==
    IF aq_data.tag = "None" THEN TooltipOk(<<NoDataLine>>)
    ELSE IF display_mode = "Current"
         THEN IF aq_data.tag = "list" THEN TooltipRaised("TypeError")
              ELSE IF aq_data.data[1].main = <<>> THEN TooltipRaised("KeyError")
              ELSE TooltipOk(
                     <<AqiLine(aq_data.data[1].main[1])>> \o
                     [k \in 1..Len(selected_pollutants) |->
                        ValueLine(selected_pollutants[k],
                                  GetOrNA(aq_data.data[1].components,
                                          pollutant_key_map(selected_pollutants[k])))])
         ELSE IF aq_data.tag = "list"
              THEN TooltipOk(
                     [k \in 1..Len(selected_pollutants) |->
                        AvgLine(selected_pollutants[k], display_mode,
                                TooltipAvg(aq_data.data, selected_pollutants[k],
                                           display_mode))])
              ELSE TooltipOk(<<NoDetailLine>>)

\* One pass of the loop body of lines 164-214: the polygon's fill colour, its
\* tooltip and the marker's label, or the exception that ends the run.
Descriptor(name, fill_color, lines) ==
    [name |-> name, fill_color |-> fill_color, tooltip |-> lines, label |-> name]

RenderRow(row, colormap, selected_pollutants, display_mode) ==
    LET fill == FillColor(colormap, row.color_val)
        tip == Tooltip(row.aq_data, selected_pollutants, display_mode)
    IN  IF fill.raised # "" THEN [raised |-> fill.raised, descriptor |-> <<>>]
        ELSE IF tip.raised # "" THEN [raised |-> tip.raised, descriptor |-> <<>>]
        ELSE [raised |-> "",
              descriptor |-> <<Descriptor(row.neighborhood, fill.color, tip.lines)>>]

\* ------------------------------------------------------- the environment

Ok(list) == HttpResponse(HTTP_OK, TRUE, list)

\* The ways a request fails: no connection, a non-200 status, a body without
\* "list", an empty "list".
FailureResponses ==
    {TransportFailure,
     HttpResponse(500, FALSE, <<>>),
     HttpResponse(HTTP_OK, FALSE, <<>>),
     Ok(<<>>)}

CurrentSamples ==
    {Sample(Pm(v), <<2>>) : v \in {10, 20, 30}}
    \cup {Sample(No2(8), <<1>>), Sample(Pm(20) @@ No2(8), <<>>)}

\* Hourly series: short ones, ones that lack a key in some or all samples,
\* and ones longer than the forecast window.
SeriesPayloads ==
    {<<Sample(Pm(5), <<>>), Sample(No2(8), <<>>)>>,
     <<Sample(No2(8), <<>>)>>,
     Ramp(ForecastWindow + RampExtra),
     Repeat(Sample(No2(8), <<>>), ForecastWindow) \o Repeat(Sample(Pm(5), <<>>), TailLen),
     Repeat(Sample(Pm(10), <<>>), ForecastWindow) \o Repeat(Sample(Pm(30), <<>>), TailLen)}

\* A provider that answers every request: region r's reading is 10 * r now
\* and the hourly ramp 1, 2, ... of ForecastWindow + r samples ahead.
SteadyResponse(display_mode, r) ==
    IF display_mode = "Current" THEN Ok(<<Sample(Pm(10 * r) @@ No2(8), <<2>>)>>)
    ELSE Ok(Ramp(ForecastWindow + r))

\* The responses requests.get can give run after run for region r.
Responses(provider, display_mode, r) ==
    IF provider = "steady" THEN {SteadyResponse(display_mode, r)}
    ELSE IF display_mode = "Current"
         THEN FailureResponses \cup {Ok(<<s>>) : s \in CurrentSamples}
         ELSE FailureResponses \cup {Ok(l) : l \in SeriesPayloads}

\* What the widgets can return when at least one pollutant is selected;
\* color_by is one of selected_pollutants.
Selections ==
    {[selected_pollutants |-> <<"pm25">>, color_by |-> "pm25"],
     [selected_pollutants |-> <<"pm25", "no2">>, color_by |-> "pm25"],
     [selected_pollutants |-> <<"no2", "pm25">>, color_by |-> "no2"]}

\* st.date_input: start_date <= today, start_date <= end_date <= today
DateRanges == {d \in (0..Today) \X (0..Today) : d[1] <= d[2]}

\* int(datetime.combine(date, datetime.min.time()).timestamp())
ToUnix(date) == date * SecondsPerDay

\* ------------------------------------------------------------------ state

VARIABLES
    neighborhoods,   \* the cached GeoDataFrame, shared by every run
    run,             \* run[s]: the globals of session s's script run
    provider         \* "any": requests may fail or succeed; "steady": see above

vars == <<neighborhoods, run, provider>>

\* load_neighborhoods(): the rows of the shapefile; no aq_data, color_val yet
\* (an absent column is <<>>).
load_neighborhoods ==
    [neighborhood |-> [r \in Regions |-> r], aq_data |-> <<>>, color_val |-> <<>>]

\* The script's globals after the widgets (lines 76-91), before the fetch loop.
Inputs(display_mode, sel, dates) ==
    [pc |-> "fetch",
     display_mode |-> display_mode,
     selected_pollutants |-> sel.selected_pollutants,
     color_by |-> sel.color_by,
     start_date |-> IF display_mode = "Historic" THEN <<dates[1]>> ELSE <<>>,
     end_date |-> IF display_mode = "Historic" THEN <<dates[2]>> ELSE <<>>,
     idx |-> 1,
     start_unix |-> 0,
     end_unix |-> 0,
     aqi_data_list |-> <<>>,
     min_val |-> Rat(0, 1),
     max_val |-> Rat(0, 1),
     rows |-> <<>>,
     m |-> <<>>,
     raised |-> ""]

Idle == [Inputs("Current", CHOOSE s \in Selections : TRUE, <<0, 0>>) EXCEPT !.pc = "idle"]

RunInputs ==
    {Inputs(mode, sel, <<0, 0>>) : mode \in {"Current", "Forecast"}, sel \in Selections}
    \cup {Inputs("Historic", sel, d) : sel \in Selections, d \in DateRanges}

\* One session runs the script once.
Init ==
    /\ neighborhoods = load_neighborhoods
    /\ provider = "any"
    /\ \E g \in RunInputs : run = [s \in Sessions |-> IF s = 1 THEN g ELSE Idle]

\* Two sessions with different mode or colouring pollutant run the script at
\* the same time, each in its own thread.
InitTwo ==
    /\ neighborhoods = load_neighborhoods
    /\ provider = "steady"
    /\ \E g1, g2 \in RunInputs :
         /\ g1.display_mode # g2.display_mode \/ g1.color_by # g2.color_by
         /\ g1.display_mode # "Historic" /\ g2.display_mode # "Historic"
         /\ run = [s \in Sessions |-> IF s = 1 THEN g1 ELSE g2]

\* ---------------------------------------------------------------- actions

\* Lines 107-118: one iteration of the fetch loop.
Fetch(s) ==
    /\ run[s].pc = "fetch"
    /\ \E resp \in Responses(provider, run[s].display_mode, run[s].idx) :
         LET g == run[s]
             start_unix == IF g.display_mode = "Historic" THEN ToUnix(g.start_date[1])
                           ELSE g.start_unix
             end_unix == IF g.display_mode = "Historic" THEN ToUnix(g.end_date[1])
                         ELSE g.end_unix
             data == IF g.display_mode = "Current" THEN fetch_current_aqi(resp)
                     ELSE IF g.display_mode = "Forecast" THEN fetch_forecast_aqi(resp)
                     ELSE fetch_historic_aqi(resp)
         IN  run' = [run EXCEPT ![s] =
                       IF data.raised # ""
                       THEN [g EXCEPT !.pc = "aborted", !.raised = data.raised,
                                      !.start_unix = start_unix, !.end_unix = end_unix]
                       ELSE [g EXCEPT !.aqi_data_list = Append(@, data.value),
                                      !.start_unix = start_unix,
                                      !.end_unix = end_unix,
                                      !.idx = IF g.idx = NumRegions THEN 1 ELSE g.idx + 1,
                                      !.pc = IF g.idx = NumRegions THEN "aq_data"
                                             ELSE "fetch"]]
    /\ UNCHANGED <<neighborhoods, provider>>

\* Line 120: neighborhoods["aq_data"] = aqi_data_list
AssignAqData(s) ==
    /\ run[s].pc = "aq_data"
    /\ neighborhoods' = [neighborhoods EXCEPT !.aq_data = run[s].aqi_data_list]
    /\ run' = [run EXCEPT ![s].pc = "color_val"]
    /\ UNCHANGED provider

\* Line 145: neighborhoods["color_val"] = neighborhoods["aq_data"].apply(extract_color_val)
AssignColorVal(s) ==
    /\ run[s].pc = "color_val"
    /\ neighborhoods' =
         [neighborhoods EXCEPT !.color_val =
            SeriesApply(neighborhoods.aq_data, run[s].color_by, run[s].display_mode)]
    /\ run' = [run EXCEPT ![s].pc = "colormap"]
    /\ UNCHANGED provider

\* Lines 148-159: the colour domain and the colormap over it
BuildColormap(s) ==
    LET d == ColorDomain(neighborhoods.color_val)
    IN  /\ run[s].pc = "colormap"
        /\ run' = [run EXCEPT ![s].min_val = d.min_val,
                              ![s].max_val = d.max_val,
                              ![s].pc = "render"]
        /\ UNCHANGED <<neighborhoods, provider>>

\* The rows iterrows() yields: it reads the frame's values when the loop starts.
Rows(frame) ==
    [r \in Regions |-> [neighborhood |-> frame.neighborhood[r],
                        aq_data |-> frame.aq_data[r],
                        color_val |-> frame.color_val[r]]]

\* Lines 164-214: one iteration of the render loop.
Render(s) ==
    LET g == run[s]
        rows == IF g.idx = 1 THEN Rows(neighborhoods) ELSE g.rows
        out == RenderRow(rows[g.idx], LinearColormap(g.min_val, g.max_val),
                         g.selected_pollutants, g.display_mode)
    IN  /\ g.pc = "render"
        /\ run' = [run EXCEPT ![s] =
                     IF out.raised # ""
                     THEN [g EXCEPT !.pc = "aborted", !.raised = out.raised, !.rows = rows]
                     ELSE [g EXCEPT !.rows = rows,
                                    !.m = @ \o out.descriptor,
                                    !.idx = IF g.idx = NumRegions THEN 1 ELSE g.idx + 1,
                                    !.pc = IF g.idx = NumRegions THEN "done" ELSE "render"]]
        /\ UNCHANGED <<neighborhoods, provider>>

Next ==
    \E s \in Sessions :
        \/ Fetch(s)
        \/ AssignAqData(s)
        \/ AssignColorVal(s)
        \/ BuildColormap(s)
        \/ Render(s)

Spec == Init /\ [][Next]_vars

SpecTwo == InitTwo /\ [][Next]_vars

\* ----------------------------------------------------------------- claims

Absent(x) == x.kind \in {"None", "NaN"}

\* two scalars agree: both absent, or the same number
SameScalar(a, b) == (Absent(a) /\ Absent(b)) \/ (IsNum(a) /\ IsNum(b) /\ a = b)

\* the run has assigned the color_val column (single-session runs)
Aggregated(s) ==
    \/ run[s].pc \in {"colormap", "render", "done"}
    \/ run[s].pc = "aborted" /\ run[s].rows # <<>>

\* the run has built its colormap
DomainBuilt(s) ==
    \/ run[s].pc \in {"render", "done"}
    \/ run[s].pc = "aborted" /\ run[s].rows # <<>>

\* the aggregation window the specification prescribes: the first 24 samples
\* of a forecast, the whole sequence of a historic series
SpecWindow(display_mode, samples) ==
    IF display_mode = "Forecast" THEN Slice(samples, ForecastWindow) ELSE samples

SeqMin(vals) == CHOOSE x \in {vals[i] : i \in 1..Len(vals)} : \A i \in 1..Len(vals) : x <= vals[i]
SeqMax(vals) == CHOOSE x \in {vals[i] : i \in 1..Len(vals)} : \A i \in 1..Len(vals) : x >= vals[i]

\* C1: in Forecast mode the scalar used for colouring is the mean over only
\* the first 24 samples that carry the pollutant key (12.5 for values 1..30);
\* in Historic mode it is the mean over the whole sequence.
C1_ForecastUsesFirst24 ==
    \A r \in Regions :
        (/\ Aggregated(1)
         /\ run[1].display_mode \in {"Forecast", "Historic"}
         /\ neighborhoods.aq_data[r].tag = "list")
        => LET vals == KeyVals(SpecWindow(run[1].display_mode, neighborhoods.aq_data[r].data),
                               pollutant_key_map(run[1].color_by))
           IN  SameScalar(neighborhoods.color_val[r],
                          IF vals # <<>> THEN Mean(vals) ELSE PyNone)

\* C2: a failed fetch becomes an absent result for that region and never
\* aborts the run: no run ends with the transport error of a fetch, nor with
\* an error raised while rendering a region whose fetch failed.
C2_FetchFailureIsolated ==
    \A s \in Sessions :
        run[s].pc = "aborted"
        => /\ run[s].raised # "ConnectionError"
           /\ run[s].rows # <<>> => run[s].rows[run[s].idx].aq_data.tag # "None"

\* C3: a region whose scalar is absent is drawn in the fallback colour, also
\* when other regions have scalars, and the absent value never reaches the
\* colour scale, so the colormap raises nothing.
C3_AbsentIsFallback ==
    \A s \in Sessions :
        /\ run[s].raised # "ValueError"
        /\ \A k \in 1..Len(run[s].m) :
               Absent(run[s].rows[k].color_val) => run[s].m[k].fill_color = Gray

\* C4 as stated: on a degenerate domain (min = max) the colour of a present
\* scalar is the mid anchor, yellow.
C4_DegenerateIsMidAnchor ==
    \A s \in Sessions : \A k \in 1..Len(run[s].m) :
        (Eq(run[s].min_val, run[s].max_val) /\ IsNum(run[s].rows[k].color_val))
        => run[s].m[k].fill_color = Anchor("yellow")

\* C4 amended: on a degenerate domain (min = max) the colormap raises nothing
\* and the colour of a present scalar is the first anchor, green.
C4_DegenerateIsFirstAnchor ==
    \A s \in Sessions :
        (DomainBuilt(s) /\ Eq(run[s].min_val, run[s].max_val))
        => /\ run[s].raised \notin {"ValueError", "ZeroDivisionError"}
           /\ \A k \in 1..Len(run[s].m) :
                  IsNum(run[s].rows[k].color_val)
                  => run[s].m[k].fill_color = Anchor("green")

\* C4: a finished run on a degenerate domain that drew a present scalar green
C4_Witness ==
    /\ run[1].pc = "done"
    /\ Eq(run[1].min_val, run[1].max_val)
    /\ \E k \in 1..Len(run[1].m) :
           /\ IsNum(run[1].rows[k].color_val)
           /\ run[1].m[k].fill_color = Anchor("green")

\* C5: for a forecast or historic series the scalar is absent iff no sample of
\* the aggregation window (the first 24 samples of a forecast, the whole
\* historic series) carries the key; otherwise it is the mean of exactly the
\* values of the samples that carry it, and lies between their min and max.
C5_MeanOfSamplesWithKey ==
    \A r \in Regions :
        (/\ Aggregated(1)
         /\ run[1].display_mode \in {"Forecast", "Historic"}
         /\ neighborhoods.aq_data[r].tag = "list")
        => LET vals == KeyVals(SpecWindow(run[1].display_mode, neighborhoods.aq_data[r].data),
                               pollutant_key_map(run[1].color_by))
               x == neighborhoods.color_val[r]
           IN  /\ Absent(x) <=> vals = <<>>
               /\ vals # <<>>
                  => /\ x.num * Len(vals) = SumSeq(vals) * x.den
                     /\ Le(Rat(SeqMin(vals), 1), x)
                     /\ Le(x, Rat(SeqMax(vals), 1))

\* C6: once the colormap is built, its domain is [min, max] over exactly the
\* present scalars, or [0, 1] when there is none, and then every region drawn
\* is gray; min <= max and every present scalar lies inside the domain.
C6_DomainOverPresentScalars ==
    DomainBuilt(1)
    => LET g == run[1]
           present == {neighborhoods.color_val[r] :
                         r \in {q \in Regions : IsNum(neighborhoods.color_val[q])}}
       IN  /\ Le(g.min_val, g.max_val)
           /\ present = {}
              => /\ g.min_val = Rat(0, 1) /\ g.max_val = Rat(1, 1)
                 /\ \A k \in 1..Len(g.m) : g.m[k].fill_color = Gray
           /\ present # {}
              => /\ g.min_val \in present /\ g.max_val \in present
                 /\ \A x \in present : Le(g.min_val, x) /\ Le(x, g.max_val)

\* C6: a colormap built over present and absent scalars with min < max
C6_Witness ==
    /\ run[1].pc = "render"
    /\ Lt(run[1].min_val, run[1].max_val)
    /\ \E r \in Regions : Absent(neighborhoods.color_val[r])
    /\ \E r \in Regions : IsNum(neighborhoods.color_val[r])

\* C7: the render loop has no error state: it raises nothing for any region
\* and any fetch result, and a finished run holds one descriptor per region,
\* each with the region's name as label.
C7_OneDescriptorPerRegion ==
    \A s \in Sessions :
        /\ run[s].raised \notin {"KeyError", "TypeError", "ValueError"}
        /\ run[s].pc = "done"
           => /\ Len(run[s].m) = NumRegions
              /\ \A r \in Regions : run[s].m[r].label = neighborhoods.neighborhood[r]

\* C8: every historic fetch a run issues has start_unix < end_unix.
C8_HistoricWindowNonEmpty ==
    \A s \in Sessions :
        (/\ run[s].display_mode = "Historic"
         /\ run[s].pc # "idle"
         /\ run[s].pc # "fetch" \/ run[s].idx > 1)
        => run[s].start_unix < run[s].end_unix

\* What a run computes from its own fetch results when no other run touches
\* the frame.
AloneColorVal(g) == SeriesApply(g.aqi_data_list, g.color_by, g.display_mode)
AloneDomain(g) == ColorDomain(AloneColorVal(g))
AloneDescriptor(g, r) ==
    RenderRow([neighborhood |-> r, aq_data |-> g.aqi_data_list[r],
               color_val |-> AloneColorVal(g)[r]],
              LinearColormap(AloneDomain(g).min_val, AloneDomain(g).max_val),
              g.selected_pollutants, g.display_mode)

\* C9: a run leaves the cached region set as load_neighborhoods built it, and
\* the domain and the descriptors of each of two interleaved runs are those it
\* would produce alone.
C9_RunsAreIsolated ==
    /\ neighborhoods = load_neighborhoods
    /\ \A s \in Sessions :
           /\ run[s].raised = ""
           /\ DomainBuilt(s)
              => /\ run[s].min_val = AloneDomain(run[s]).min_val
                 /\ run[s].max_val = AloneDomain(run[s]).max_val
           /\ \A k \in 1..Len(run[s].m) :
                  <<run[s].m[k]>> = AloneDescriptor(run[s], k).descriptor

\* the second half of C9 alone: interleaved runs do not disturb each other
C9_InterleavingOnly ==
    \A s \in Sessions :
        /\ run[s].raised = ""
        /\ \A k \in 1..Len(run[s].m) :
               <<run[s].m[k]>> = AloneDescriptor(run[s], k).descriptor

\* the tooltip line of pollutant p in a descriptor
LineOf(descriptor, p) ==
    CHOOSE l \in {descriptor.tooltip[i] : i \in 1..Len(descriptor.tooltip)} :
        l.p = Upper(p) /\ l.text \in {"value", "avg"}

\* C10: for every region drawn with a non-absent fetch result, the scalar the
\* fill colour was chosen from equals the value its tooltip shows for the
\* colouring pollutant, and it is absent exactly when the tooltip shows "N/A".
C10_ColourMatchesTooltip ==
    \A s \in Sessions : \A k \in 1..Len(run[s].m) :
        run[s].rows[k].aq_data.tag # "None"
        => LET shown == LineOf(run[s].m[k], run[s].color_by).val
               x == run[s].rows[k].color_val
           IN  /\ Absent(x) <=> shown = NAString
               /\ IsNum(x) => shown = x

====
